---- MODULE Spec2Model ----
(***************************************************************************)
(* Map host / overlay layer synchronisation of narrative-geographies.      *)
(*                                                                         *)
(* ExploreSection (Layout.tsx) owns activeTab and renders                  *)
(*   <BaseMap mode> <CommunityLayer/> <StructureLayer/>                    *)
(*                  {activeTab = STORIES && <StoryLayer mode="story"/>}    *)
(* BaseMap owns the engine instance and the mapLoaded flag and renders its *)
(* children only while mapLoaded is true.  One action is one task of the   *)
(* UI event loop: a click, an engine event, a fetch continuation, together *)
(* with the render, effect cleanups and effects React runs for it.         *)
(***************************************************************************)
EXTENDS Integers, Sequences, FiniteSets, TLC

VARIABLES
    mounted,    \* ExploreSection (and with it BaseMap) is in the tree
    activeTab,  \* ExploreSection useState: "STORIES" | "DATA"
    mapLoaded,  \* BaseMap useState, published through MapContext
    engine,     \* the instance held by map.current (NoEngine when null)
    styleCb,    \* BaseMap's pending once("style.load") callbacks
    structureCb,\* StructureLayer's on("style.load", addStructureLayer)
    retries,    \* StoryLayer's pending once("style.load") retry callbacks
    clicks,     \* click listeners attached per overlay layer
    fetches,    \* GeoJSON requests in flight, per overlay and per status
    calls,      \* engine calls made by the last task, in order
    failed,     \* a fetch failed or the engine refused a call for another
                \* reason than a style still loading
    toggles,    \* tab changes since the last mount
    mounts,     \* mounts so far
    \* AppProvider (AppContext.tsx)
    store,      \* the useState values of AppProvider
    queue,      \* setter calls made since the last render of AppProvider
    batch,      \* the calls the last render of AppProvider applied
    storeCalls, \* setter calls so far
    context,    \* outcome of the last useAppContext() call
    \* Layout and Menu (Layout.tsx, Menu.tsx)
    menuMounted,\* Layout with its Menu is in the tree
    isMenuOpen, \* Layout useState, passed to Menu as isOpen
    isVisible,  \* Menu useState
    timers,     \* pending setTimeout callbacks of Menu: ms left, oldest first
    sinceClose, \* ms since isOpen last turned false, up to the delay
    flips       \* changes of isMenuOpen so far

mapVars == <<mounted, activeTab, mapLoaded, engine, styleCb, structureCb,
             retries, clicks, fetches, calls, failed, toggles, mounts>>

storeVars == <<store, queue, batch, storeCalls, context>>

menuVars == <<menuMounted, isMenuOpen, isVisible, timers, sinceClose, flips>>

vars == <<mapVars, storeVars, menuVars>>

\* ------------------------------------------------------------------ bounds
MaxToggles == 3
MaxMounts == 1
\* requests of one overlay whose effect was cleaned up and that are still in
\* flight: a tab change waits while there would be more
MaxStale == 1
\* the same for the story overlay, whose retry needs two responses
\* outstanding to meet a source that is already there
MaxStaleStory == 2
\* click listeners counted per layer; MaxListeners stands for "or more"
MaxListeners == 2
\* setter calls on the store
MaxStoreCalls == 2
\* changes of isMenuOpen, pending timers, and clock steps per menu delay
MaxFlips == 6
MaxTimers == 2
Ticks == 6

\* --------------------------------------------------------------- constants
Overlays == {"community", "structure", "story"}
Tabs == {"STORIES", "DATA"}
\* "current": issued by an effect that is still active; "stale": the effect
\* has been cleaned up; "dead": the instance it captured has been removed.
FetchStates == {"current", "stale", "dead"}
\* What the engine does with the addSource / addLayer calls of one task.
Faults == {"none", "addSource", "addLayer"}

storyStyle == "mapbox://styles/mapbox/light-v11"
dataStyle == "mapbox://styles/mapbox/streets-v11"

SourceId(o) ==
    CASE o = "community" -> "community-data"
      [] o = "structure" -> "structure-data"
      [] o = "story" -> "stories-data"

LayerId(o) ==
    CASE o = "community" -> "community-boundaries"
      [] o = "structure" -> "structure-markers"
      [] o = "story" -> "story-markers"

\* <BaseMap mode={activeTab === "STORIES" ? "story" : "data"}>
ModeProp(tab) == IF tab = "STORIES" THEN "story" ELSE "data"

\* mode === "story" ? MAPBOX_CONFIG.storyStyle : MAPBOX_CONFIG.dataStyle
StyleFor(mode) == IF mode = "story" THEN storyStyle ELSE dataStyle

\* <CommunityLayer /> is rendered without onFeatureClick,
\* <StoryLayer onStoryClick={...}> with a callback.
onFeatureClick == FALSE
onStoryClick == TRUE

\* ------------------------------------------------------------------ engine
\* phase "loading": a style document is being loaded, the style holds no
\*   custom source or layer and refuses mutations ("Style is not done
\*   loading"); "diffing": setStyle was requested and the previous style is
\*   still in place; "loaded": the style finished loading.
\* layers are the style's layers by identifier, order is the stack they are
\* drawn in, bottom first: addLayer without beforeId puts a layer on top.
NoEngine ==
    [phase |-> "none", style |-> "none", target |-> "none",
     sources |-> {}, layers |-> {}, order |-> <<>>, loadFired |-> FALSE]

\* new mapboxgl.Map({style: ...})
NewEngine(style) ==
    [phase |-> "loading", style |-> style, target |-> style,
     sources |-> {}, layers |-> {}, order |-> <<>>, loadFired |-> FALSE]

NotDoneLoading(e) == e.phase = "loading"

AddSourceError(e, fault) ==
    IF NotDoneLoading(e) THEN "Style is not done loading"
    ELSE IF fault = "addSource" THEN "rejected"
    ELSE "none"

AddLayerError(e, src, fault) ==
    IF NotDoneLoading(e) THEN "Style is not done loading"
    ELSE IF fault = "addLayer" \/ src \notin e.sources THEN "rejected"
    ELSE "none"

\* The engine has no layer of that name to remove.
RemoveLayerError(e, o) ==
    IF LayerId(o) \notin e.layers THEN "rejected" ELSE "none"

\* The engine keeps a source while a layer uses it, and has none to remove
\* when the name is unknown.
RemoveSourceError(e, o) ==
    IF LayerId(o) \in e.layers \/ SourceId(o) \notin e.sources
    THEN "rejected" ELSE "none"

\* map.setStyle(newStyle): the request is recorded; the previous style stays
\* in place until the engine drops it (Discard), which may be at once.
EngSetStyle(e, style) == [e EXCEPT !.phase = "diffing", !.target = style]

\* --------------------------------------------------- one task's call trace
\* M is the part of the state a handler works on: the engine it captured,
\* the listeners, the calls made so far, the fetches it issued, the ready
\* flag published at that moment and whether its instance was removed.
Task(e, ready, dead) ==
    [eng |-> e, calls |-> <<>>, retries |-> retries, clicks |-> clicks,
     styleCb |-> styleCb, structureCb |-> structureCb,
     issued |-> [o \in Overlays |-> 0],
     ready |-> ready, dead |-> dead, generic |-> FALSE]

Call(M, by, via, op, id, err) ==
    [M EXCEPT !.calls = Append(@, [by |-> by, via |-> via, op |-> op,
                                   id |-> id, err |-> err,
                                   ready |-> M.ready, dead |-> M.dead]),
              !.generic = @ \/ err = "rejected"]

AddSource(M, o) == [M EXCEPT !.eng.sources = @ \cup {SourceId(o)}]
AddLayer(M, o) ==
    [M EXCEPT !.eng.layers = @ \cup {LayerId(o)},
              !.eng.order = Append(@, LayerId(o))]
RemoveLayer(M, o) ==
    IF RemoveLayerError(M.eng, o) = "none"
    THEN [M EXCEPT !.eng.layers = @ \ {LayerId(o)},
                   !.eng.order = SelectSeq(@, LAMBDA l : l # LayerId(o))]
    ELSE M
RemoveSource(M, o) ==
    IF RemoveSourceError(M.eng, o) = "none"
    THEN [M EXCEPT !.eng.sources = @ \ {SourceId(o)}]
    ELSE M
Fetch(M, o) == [M EXCEPT !.issued[o] = @ + 1]
Listen(n) == IF n < MaxListeners THEN n + 1 ELSE n

\* ---------------------------------------------------------- CommunityLayer
\* variant of the continuation that creates the source and stops there
CommunityThenSourceOnly(M, via, fault) ==
    LET M0 == Call(M, "community", via, "getSource", "community-data", "none")
        e1 == AddSourceError(M0.eng, fault)
    IN  IF "community-data" \notin M0.eng.sources
        THEN IF e1 # "none"
             THEN Call(M0, "community", via, "addSource", "community-data", e1)
             ELSE Call(AddSource(M0, "community"), "community", via,
                       "addSource", "community-data", "none")
        ELSE Call(M0, "community", via, "setData", "community-data", "none")

\* variant of the continuation that adds source and layer without looking
\* the source up
CommunityThenNoLookup(M, via, fault) ==
    LET e1 == AddSourceError(M.eng, fault) IN
    IF e1 # "none"
    THEN Call(M, "community", via, "addSource", "community-data", e1)
    ELSE LET M1 == Call(AddSource(M, "community"), "community", via,
                        "addSource", "community-data", "none")
             e2 == AddLayerError(M1.eng, "community-data", fault)
         IN  IF e2 # "none"
             THEN Call(M1, "community", via, "addLayer",
                       "community-boundaries", e2)
             ELSE Call(AddLayer(M1, "community"), "community", via,
                       "addLayer", "community-boundaries", "none")

\* .then((data) => {...}) of the fetch, CommunityLayer.tsx:42-67
CommunityThen(M, via, fault) ==
    LET M0 == Call(M, "community", via, "getSource", "community-data", "none")
    IN  IF "community-data" \notin M0.eng.sources
        THEN LET e1 == AddSourceError(M0.eng, fault) IN
             IF e1 # "none"
             THEN Call(M0, "community", via, "addSource", "community-data", e1)
             ELSE LET M1 == Call(AddSource(M0, "community"), "community", via,
                                 "addSource", "community-data", "none")
                      e2 == AddLayerError(M1.eng, "community-data", fault)
                  IN  IF e2 # "none"
                      THEN Call(M1, "community", via, "addLayer",
                                "community-boundaries", e2)
                      ELSE Call(AddLayer(M1, "community"), "community", via,
                                "addLayer", "community-boundaries", "none")
        ELSE Call(M0, "community", via, "setData", "community-data", "none")

\* useEffect body of CommunityLayer once map && mapLoaded
CommunityEffect(M) ==
    LET M0 == Fetch(M, "community")
    IN  IF onFeatureClick
        THEN Call([M0 EXCEPT !.clicks["community"] = Listen(@)], "community",
                  "effect", "on:click", "community-boundaries", "none")
        ELSE M0

\* the cleanup CommunityLayer returns: only with a click callback, and then
\* only map.off("click", ...)
CommunityCleanup(M) ==
    IF onFeatureClick
    THEN Call([M EXCEPT !.clicks["community"] = @ - 1], "community",
              "cleanup", "off:click", "community-boundaries", "none")
    ELSE M

\* ---------------------------------------------------------- StructureLayer
\* addStructureLayer after its awaits, StructureLayer.tsx:32-65
StructureThen(M, via, fault) ==
    LET M0 == Call(M, "structure", via, "getSource", "structure-data", "none")
        e1 == AddSourceError(M0.eng, fault)
        hasSource == "structure-data" \in M0.eng.sources
        M1 == IF hasSource
              THEN Call(M0, "structure", via, "setData", "structure-data",
                        "none")
              ELSE IF e1 # "none"
              THEN Call(M0, "structure", via, "addSource", "structure-data", e1)
              ELSE Call(AddSource(M0, "structure"), "structure", via,
                        "addSource", "structure-data", "none")
    IN  IF ~hasSource /\ e1 # "none"
        THEN M1
        ELSE LET M2 == Call(M1, "structure", via, "getLayer",
                            "structure-markers", "none")
                 e2 == AddLayerError(M2.eng, "structure-data", fault)
             IN  IF "structure-markers" \in M2.eng.layers
                 THEN M2
                 ELSE IF e2 # "none"
                 THEN Call(M2, "structure", via, "addLayer",
                           "structure-markers", e2)
                 ELSE Call(AddLayer(M2, "structure"), "structure", via,
                           "addLayer", "structure-markers", "none")

\* useEffect body of StructureLayer once map && mapLoaded
StructureEffect(M) ==
    Call([Fetch(M, "structure") EXCEPT !.structureCb = @ + 1], "structure",
         "effect", "on:style.load", "style.load", "none")

\* variant of the cleanup that leaves addStructureLayer subscribed
StructureCleanupKeepsListener(M) ==
    LET M1 == Call(M, "structure", "cleanup", "getLayer",
                   "structure-markers", "none")
        M2 == IF "structure-markers" \in M1.eng.layers
              THEN Call(RemoveLayer(M1, "structure"), "structure", "cleanup",
                        "removeLayer", "structure-markers",
                        RemoveLayerError(M1.eng, "structure"))
              ELSE M1
        M3 == Call(M2, "structure", "cleanup", "getSource", "structure-data",
                   "none")
    IN  IF "structure-data" \in M3.eng.sources
        THEN Call(RemoveSource(M3, "structure"), "structure", "cleanup",
                  "removeSource", "structure-data",
                  RemoveSourceError(M3.eng, "structure"))
        ELSE M3

\* the cleanup StructureLayer returns, StructureLayer.tsx:83-93
StructureCleanup(M) ==
    LET M0 == Call([M EXCEPT !.structureCb = 0], "structure", "cleanup",
                   "off:style.load", "style.load", "none")
        M1 == Call(M0, "structure", "cleanup", "getLayer",
                   "structure-markers", "none")
        M2 == IF "structure-markers" \in M1.eng.layers
              THEN Call(RemoveLayer(M1, "structure"), "structure", "cleanup",
                        "removeLayer", "structure-markers",
                        RemoveLayerError(M1.eng, "structure"))
              ELSE M1
        M3 == Call(M2, "structure", "cleanup", "getSource", "structure-data",
                   "none")
    IN  IF "structure-data" \in M3.eng.sources
        THEN Call(RemoveSource(M3, "structure"), "structure", "cleanup",
                  "removeSource", "structure-data",
                  RemoveSourceError(M3.eng, "structure"))
        ELSE M3

\* -------------------------------------------------------------- StoryLayer
\* map.addLayer({id: "story-markers", ...}) in its try block, followed by
\* the click listener, StoryLayer.tsx:93-119 and 127-151
StoryAddLayer(M, via, fault) ==
    LET e2 == AddLayerError(M.eng, "stories-data", fault)
    IN  IF e2 # "none"
        THEN Call(M, "story", via, "addLayer", "story-markers", e2)
        ELSE LET M1 == Call(AddLayer(M, "story"), "story", via, "addLayer",
                            "story-markers", "none")
             IN  IF onStoryClick
                 THEN Call([M1 EXCEPT !.clicks["story"] = Listen(@)], "story",
                           via, "on:click", "story-markers", "none")
                 ELSE M1

\* variant of the retry callback that adds the source and the layer without
\* looking them up
StoryRetryNoRecheck(M, fault) ==
    LET e1 == AddSourceError(M.eng, fault)
    IN  IF e1 # "none"
        THEN Call(M, "story", "retry", "addSource", "stories-data", e1)
        ELSE StoryAddLayer(Call(AddSource(M, "story"), "story", "retry",
                                "addSource", "stories-data", "none"),
                           "retry", fault)

\* variant of the retry callback that waits for another style.load when its
\* addSource is refused
StoryRetryAgain(M, fault) ==
    LET M0 == Call(M, "story", "retry", "getSource", "stories-data", "none")
        e1 == AddSourceError(M0.eng, fault)
    IN  IF "stories-data" \in M0.eng.sources
        THEN Call(M0, "story", "retry", "setData", "stories-data", "none")
        ELSE IF e1 # "none"
        THEN Call([Call(M0, "story", "retry", "addSource", "stories-data", e1)
                      EXCEPT !.retries = @ + 1],
                  "story", "retry", "once:style.load", "style.load", "none")
        ELSE StoryAddLayer(Call(AddSource(M0, "story"), "story", "retry",
                                "addSource", "stories-data", "none"),
                           "retry", fault)

\* the callback given to map.once("style.load", ...), StoryLayer.tsx:77-120
StoryRetry(M, fault) ==
    LET M0 == Call(M, "story", "retry", "getSource", "stories-data", "none")
        e1 == AddSourceError(M0.eng, fault)
        hasSource == "stories-data" \in M0.eng.sources
        M1 == IF hasSource
              THEN Call(M0, "story", "retry", "setData", "stories-data",
                        "none")
              ELSE IF e1 # "none"
              THEN Call(M0, "story", "retry", "addSource", "stories-data", e1)
              ELSE Call(AddSource(M0, "story"), "story", "retry", "addSource",
                        "stories-data", "none")
    IN  IF ~hasSource /\ e1 # "none"
        THEN M1
        ELSE LET M2 == Call(M1, "story", "retry", "getLayer", "story-markers",
                            "none")
             IN  IF "story-markers" \in M2.eng.layers
                 THEN M2
                 ELSE StoryAddLayer(M2, "retry", fault)

\* .then((data) => {...}) of addStoryLayer's fetch, StoryLayer.tsx:64-157
StoryThen(M, via, fault) ==
    LET M0 == Call(M, "story", via, "getSource", "stories-data", "none")
    IN  IF "stories-data" \notin M0.eng.sources
        THEN LET e1 == AddSourceError(M0.eng, fault) IN
             IF e1 = "Style is not done loading"
             THEN Call([Call(M0, "story", via, "addSource", "stories-data", e1)
                           EXCEPT !.retries = @ + 1],
                       "story", via, "once:style.load", "style.load", "none")
             ELSE IF e1 # "none"
             THEN Call(M0, "story", via, "addSource", "stories-data", e1)
             ELSE StoryAddLayer(Call(AddSource(M0, "story"), "story", via,
                                     "addSource", "stories-data", "none"),
                                via, fault)
        ELSE Call(M0, "story", via, "setData", "stories-data", "none")

\* variant of the removal that takes the source out before the layer
StoryRemoveSourceFirst(M, via) ==
    LET M1 == Call(M, "story", via, "getSource", "stories-data", "none")
        M2 == IF "stories-data" \in M1.eng.sources
              THEN Call(RemoveSource(M1, "story"), "story", via,
                        "removeSource", "stories-data",
                        RemoveSourceError(M1.eng, "story"))
              ELSE M1
        M3 == Call(M2, "story", via, "getLayer", "story-markers", "none")
    IN  IF "story-markers" \in M3.eng.layers
        THEN Call(RemoveLayer(M3, "story"), "story", via, "removeLayer",
                  "story-markers", RemoveLayerError(M3.eng, "story"))
        ELSE M3

\* removal of the overlay: layer first, then source, each if present;
\* StoryLayer.tsx:42-49 (mode branch) and 166-173 (cleanup)
StoryRemove(M, via) ==
    LET M1 == Call(M, "story", via, "getLayer", "story-markers", "none")
        M2 == IF "story-markers" \in M1.eng.layers
              THEN Call(RemoveLayer(M1, "story"), "story", via, "removeLayer",
                        "story-markers", RemoveLayerError(M1.eng, "story"))
              ELSE M1
        M3 == Call(M2, "story", via, "getSource", "stories-data", "none")
    IN  IF "stories-data" \in M3.eng.sources
        THEN Call(RemoveSource(M3, "story"), "story", via, "removeSource",
                  "stories-data", RemoveSourceError(M3.eng, "story"))
        ELSE M3

\* useEffect body of StoryLayer once map && mapLoaded, for its mode prop
StoryEffect(M, mode) ==
    IF mode # "story" THEN StoryRemove(M, "effect") ELSE Fetch(M, "story")

\* the cleanup StoryLayer returns when its effect got past the mode branch
StoryCleanup(M, mode) ==
    IF mode # "story" THEN M ELSE StoryRemove(M, "cleanup")

\* ------------------------------------------------------------------ BaseMap
\* variant of the mode effect that requests the style without resetting
\* mapLoaded
ModeEffectKeepsReady(M, loaded, mode, throws) ==
    IF M.eng.phase = "none" \/ ~loaded
    THEN M
    ELSE IF throws
    THEN Call([M EXCEPT !.ready = FALSE], "host", "effect", "setStyle",
              StyleFor(mode), "rejected")
    ELSE LET M1 == Call([M EXCEPT !.eng = EngSetStyle(@, StyleFor(mode))],
                        "host", "effect", "setStyle", StyleFor(mode), "none")
         IN  Call([M1 EXCEPT !.styleCb = @ + 1], "host", "effect",
                  "once:style.load", "style.load", "none")

\* variant of the mode effect without the mapLoaded test
ModeEffectNoGuard(M, loaded, mode, throws) ==
    IF M.eng.phase = "none"
    THEN M
    ELSE IF throws
    THEN Call([M EXCEPT !.ready = FALSE], "host", "effect", "setStyle",
              StyleFor(mode), "rejected")
    ELSE LET M1 == Call([M EXCEPT !.ready = FALSE,
                                  !.eng = EngSetStyle(@, StyleFor(mode))],
                        "host", "effect", "setStyle", StyleFor(mode), "none")
         IN  Call([M1 EXCEPT !.styleCb = @ + 1], "host", "effect",
                  "once:style.load", "style.load", "none")

\* the mode effect, BaseMap.tsx:90-107.  When setStyle throws the effect
\* ends there: setMapLoaded(false) has been requested, no callback is
\* registered and nothing catches the exception.
ModeEffect(M, loaded, mode, throws) ==
    IF M.eng.phase = "none" \/ ~loaded
    THEN M
    ELSE IF throws
    THEN Call([M EXCEPT !.ready = FALSE], "host", "effect", "setStyle",
              StyleFor(mode), "rejected")
    ELSE LET M1 == Call([M EXCEPT !.ready = FALSE,
                                  !.eng = EngSetStyle(@, StyleFor(mode))],
                        "host", "effect", "setStyle", StyleFor(mode), "none")
         IN  Call([M1 EXCEPT !.styleCb = @ + 1], "host", "effect",
                  "once:style.load", "style.load", "none")

\* ----------------------------------------------------------- ExploreSection
\* StoryLayer is a child only on the STORIES tab, always with mode="story".
HasStory(tab) == tab = "STORIES"

\* effects of the children BaseMap renders once mapLoaded is true
MountChildren(M, tab) ==
    LET M1 == StructureEffect(CommunityEffect(M))
    IN  IF HasStory(tab) THEN StoryEffect(M1, "story") ELSE M1

\* cleanups of the children when BaseMap stops rendering them
UnmountChildren(M, tab) ==
    LET M1 == StructureCleanup(CommunityCleanup(M))
    IN  IF HasStory(tab) THEN StoryCleanup(M1, "story") ELSE M1

\* variant of the cleanup that leaves the instance alone
TeardownKeepsInstance(M, loaded, tab) ==
    LET M1 == [M EXCEPT !.dead = TRUE]
    IN  IF loaded THEN UnmountChildren(M1, tab) ELSE M1

\* BaseMap's cleanup (BaseMap.tsx:81-86) removes the instance, then the
\* cleanups of the children it had rendered run on the instance they
\* captured.
Teardown(M, loaded, tab) ==
    LET M0 == Call(M, "host", "cleanup", "remove", "map", "none")
        M1 == [M0 EXCEPT !.eng = NoEngine, !.dead = TRUE]
    IN  IF loaded THEN UnmountChildren(M1, tab) ELSE M1

\* ----------------------------------------------------------------- fetches
NoFetches == [o \in Overlays |-> [s \in FetchStates |-> 0]]

Issue(f, issued) ==
    [o \in Overlays |-> [f[o] EXCEPT !["current"] = @ + issued[o]]]

\* the effects that issued the requests of the overlays in S were cleaned up
Stale(f, S) ==
    [o \in Overlays |->
        IF o \in S
        THEN [f[o] EXCEPT !["stale"] = @ + f[o]["current"], !["current"] = 0]
        ELSE f[o]]

\* the instance the requests captured was removed; the continuations of
\* one overlay on a removed instance are alike and one stands for them all
Dead(f) ==
    [o \in Overlays |->
        [s \in FetchStates |->
            IF s = "dead" /\ f[o]["dead"] + f[o]["stale"] + f[o]["current"] > 0
            THEN 1 ELSE 0]]

InFlight(f) == \E o \in Overlays, s \in FetchStates : f[o][s] > 0

\* -------------------------------------------------------------- AppProvider
Fields ==
    {"mode", "leftPanelOpen", "rightPanelOpen", "selectedCommunity",
     "selectedTheme", "selectedCharacter", "selectedStory", "mapView",
     "filters", "isLoading"}

FilterKeys == {"theme", "mediaType", "dateRange"}

defaultMapView == [center |-> "Port Harcourt", zoom |-> "default"]

defaultFilters ==
    [theme |-> "null", mediaType |-> "all", dateRange |-> <<"null", "null">>]

\* values of FilterSettings[K]
FilterValues(key) ==
    CASE key = "theme" -> {"null", "Electricity"}
      [] key = "mediaType" -> {"all", "video"}
      [] key = "dateRange" -> {<<"null", "null">>, <<"start", "end">>}

FilterSettings ==
    [theme : FilterValues("theme"), mediaType : FilterValues("mediaType"),
     dateRange : FilterValues("dateRange")]

\* values a setter is called with, by the type of its parameter
Values(field) ==
    CASE field = "mode" -> Tabs
      [] field \in {"leftPanelOpen", "rightPanelOpen", "isLoading"} -> BOOLEAN
      [] field \in {"selectedCommunity", "selectedTheme", "selectedCharacter",
                    "selectedStory"} -> {"null", "item"}
      [] field = "mapView" ->
             {defaultMapView, [center |-> "elsewhere", zoom |-> "closer"]}
      [] field = "filters" -> FilterSettings

\* the useState initial values, AppContext.tsx:127-146
InitialStore ==
    [mode |-> "STORIES", leftPanelOpen |-> FALSE, rightPanelOpen |-> FALSE,
     selectedCommunity |-> "null", selectedTheme |-> "null",
     selectedCharacter |-> "null", selectedStory |-> "null",
     mapView |-> defaultMapView, filters |-> defaultFilters,
     isLoading |-> FALSE]

\* setMode(v), setLeftPanelOpen(v), ...: the state update a useState setter
\* queues
Setter(field, value) ==
    [op |-> "set", field |-> field, key |-> "none", value |-> value]

\* variant of updateFilter that spreads the filters of the last render:
\* setFilters({...filters, [key]: value})
updateFilterFromClosure(key, value) ==
    Setter("filters", [store.filters EXCEPT ![key] = value])

\* updateFilter(key, value): setFilters(prev => ({...prev, [key]: value})),
\* AppContext.tsx:149-154
updateFilter(key, value) ==
    [op |-> "update", field |-> "filters", key |-> key, value |-> value]

\* variant of the update that also clears the loading flag
ReduceClearsLoading(state, u) ==
    IF u.op = "update"
    THEN [state EXCEPT !.filters = [@ EXCEPT ![u.key] = u.value]]
    ELSE [state EXCEPT ![u.field] = u.value, !.isLoading = FALSE]

\* React applies one queued update to the state of its hook
Reduce(state, u) ==
    IF u.op = "update"
    THEN [state EXCEPT !.filters = [@ EXCEPT ![u.key] = u.value]]
    ELSE [state EXCEPT ![u.field] = u.value]

RECURSIVE Flush(_, _)
Flush(state, q) ==
    IF q = <<>> THEN state ELSE Flush(Reduce(state, Head(q).upd), Tail(q))

\* what a component reads from AppContext: the provider's value inside an
\* AppProvider, the createContext default (undefined) outside
ContextValue(inside) ==
    IF inside THEN [defined |-> TRUE, value |-> store] ELSE [defined |-> FALSE]

\* variant of useAppContext without the undefined test
useAppContextUnchecked(ctx) ==
    [outcome |-> "returns", same |-> ctx.defined /\ ctx.value = store]

\* useAppContext, AppContext.tsx:203-209
useAppContext(ctx) ==
    IF ~ctx.defined
    THEN [outcome |-> "throws", same |-> FALSE]
    ELSE [outcome |-> "returns", same |-> ctx.value = store]

StoreInit ==
    /\ store = InitialStore
    /\ queue = <<>>
    /\ batch = <<>>
    /\ storeCalls = 0
    /\ context = [inside |-> FALSE, outcome |-> "none", same |-> FALSE]

\* an event handler calls a setter of the context value
CallSetter(field, value) ==
    /\ storeCalls < MaxStoreCalls
    /\ storeCalls' = storeCalls + 1
    /\ queue' = Append(queue, [fn |-> "set", key |-> field, arg |-> value,
                                upd |-> Setter(field, value)])
    /\ UNCHANGED <<store, batch, context>>
    /\ UNCHANGED <<mapVars, menuVars>>

\* an event handler calls updateFilter
CallUpdateFilter(key, value) ==
    /\ storeCalls < MaxStoreCalls
    /\ storeCalls' = storeCalls + 1
    /\ queue' = Append(queue, [fn |-> "updateFilter", key |-> key,
                                arg |-> value,
                                upd |-> updateFilter(key, value)])
    /\ UNCHANGED <<store, batch, context>>
    /\ UNCHANGED <<mapVars, menuVars>>

\* the handler has returned: AppProvider renders with the queued updates
\* applied in order
Render ==
    /\ queue # <<>>
    /\ store' = Flush(store, queue)
    /\ batch' = queue
    /\ queue' = <<>>
    /\ UNCHANGED <<storeCalls, context>>
    /\ UNCHANGED <<mapVars, menuVars>>

\* a component calls useAppContext() during its render
ReadContext(inside) ==
    /\ context' = [inside |-> inside]
                      @@ useAppContext(ContextValue(inside))
    /\ context' # context
    /\ UNCHANGED <<store, queue, batch, storeCalls>>
    /\ UNCHANGED <<mapVars, menuVars>>

\* --------------------------------------------------------- Layout and Menu
\* setTimeout(() => setIsVisible(false), 300), Menu.tsx:65
MenuDelay == 300

TickMs == MenuDelay \div Ticks

\* if (!isVisible && !isOpen) return null, Menu.tsx:71
Rendered == menuMounted /\ (isVisible \/ isMenuOpen)

\* variant of the cleanup of the earlier revision, which returns none
\* (Menu.tsx:255-261)
ClearTimeoutNever(T) == T

\* return () => clearTimeout(timer), Menu.tsx:66: the timer of the effect
\* being cleaned up is the newest one, if it is still pending
ClearTimeout(T) ==
    IF T = <<>> THEN T ELSE SubSeq(T, 1, Len(T) - 1)

MenuInit ==
    /\ menuMounted = FALSE
    /\ isMenuOpen = FALSE
    /\ isVisible = FALSE
    /\ timers = <<>>
    /\ sinceClose = MenuDelay
    /\ flips = 0

\* Layout mounts with isMenuOpen = false (Layout.tsx:15); Menu's effect
\* takes its else branch and starts a timer
MenuMount ==
    /\ ~menuMounted
    /\ flips < MaxFlips
    /\ menuMounted' = TRUE
    /\ isMenuOpen' = FALSE
    /\ isVisible' = FALSE
    /\ timers' = Append(timers, MenuDelay)
    /\ sinceClose' = MenuDelay
    /\ UNCHANGED flips
    /\ UNCHANGED <<mapVars, storeVars>>

\* setIsMenuOpen(v) with v different from the current value, and the render
\* it causes: cleanup of the previous effect run, then the effect
\* (Menu.tsx:61-68)
SetIsMenuOpen(v) ==
    /\ menuMounted
    /\ v # isMenuOpen
    /\ flips < MaxFlips
    /\ flips' = flips + 1
    /\ isMenuOpen' = v
    /\ LET cleaned == IF isMenuOpen THEN timers ELSE ClearTimeout(timers)
       IN  IF v
           THEN /\ isVisible' = TRUE
                /\ timers' = cleaned
                /\ UNCHANGED sinceClose
           ELSE /\ timers' = Append(cleaned, MenuDelay)
                /\ sinceClose' = 0
                /\ UNCHANGED isVisible
    /\ UNCHANGED menuMounted
    /\ UNCHANGED <<mapVars, storeVars>>

\* the menu button, Layout.tsx:23
ToggleMenu == SetIsMenuOpen(~isMenuOpen)

\* onClose from the rendered menu, Layout.tsx:17
CloseMenu == Rendered /\ isMenuOpen /\ SetIsMenuOpen(FALSE)

\* time passes
Tick ==
    /\ menuMounted
    /\ \/ sinceClose < MenuDelay
       \/ \E i \in 1..Len(timers) : timers[i] > 0
    /\ timers' = [i \in 1..Len(timers) |->
                      IF timers[i] > TickMs THEN timers[i] - TickMs ELSE 0]
    /\ sinceClose' = IF sinceClose + TickMs < MenuDelay
                     THEN sinceClose + TickMs ELSE MenuDelay
    /\ UNCHANGED <<menuMounted, isMenuOpen, isVisible, flips>>
    /\ UNCHANGED <<mapVars, storeVars>>

\* a timer whose delay has passed runs setIsVisible(false)
TimerFires(i) ==
    /\ i \in 1..Len(timers)
    /\ timers[i] = 0
    /\ timers' = SubSeq(timers, 1, i - 1) \o SubSeq(timers, i + 1, Len(timers))
    /\ isVisible' = FALSE
    /\ UNCHANGED <<menuMounted, isMenuOpen, sinceClose, flips>>
    /\ UNCHANGED <<mapVars, storeVars>>

\* Layout leaves the tree: the cleanup of Menu's last effect run clears
\* its timer, and a timer of an instance that is gone has nothing to set
MenuUnmount ==
    /\ menuMounted
    /\ menuMounted' = FALSE
    /\ isMenuOpen' = FALSE
    /\ isVisible' = FALSE
    /\ timers' = <<>>
    /\ sinceClose' = MenuDelay
    /\ UNCHANGED flips
    /\ UNCHANGED <<mapVars, storeVars>>

\* ------------------------------------------------------------------ actions
Init ==
    /\ mounted = FALSE
    /\ activeTab = "STORIES"
    /\ mapLoaded = FALSE
    /\ engine = NoEngine
    /\ styleCb = 0
    /\ structureCb = 0
    /\ retries = 0
    /\ clicks = [o \in Overlays |-> 0]
    /\ fetches = NoFetches
    /\ calls = <<>>
    /\ failed = FALSE
    /\ toggles = 0
    /\ mounts = 0
    /\ StoreInit
    /\ MenuInit

\* what a task leaves behind on the live instance
Apply(M) ==
    /\ engine' = M.eng
    /\ styleCb' = M.styleCb
    /\ structureCb' = M.structureCb
    /\ retries' = M.retries
    /\ clicks' = M.clicks
    /\ calls' = M.calls
    /\ failed' = (failed \/ M.generic)

\* first render of ExploreSection and BaseMap and BaseMap's mount effect
\* (BaseMap.tsx:58-79); the mode effect runs too and returns early.
Mount ==
    /\ ~mounted
    /\ mounts < MaxMounts
    /\ mounted' = TRUE
    /\ activeTab' = "STORIES"
    /\ mapLoaded' = FALSE
    /\ mounts' = mounts + 1
    /\ LET M0 == Call(Task(NewEngine(StyleFor(ModeProp("STORIES"))), FALSE,
                            FALSE),
                       "host", "effect", "new", "map", "none")
           M1 == Call(M0, "host", "effect", "on:load", "load", "none")
       IN  Apply(ModeEffect(M1, FALSE, ModeProp("STORIES"), FALSE))
    /\ toggles' = 0
    /\ UNCHANGED fetches
    /\ UNCHANGED <<storeVars, menuVars>>

\* onClick={() => setActiveTab(t)} and the renders it causes: the commit for
\* the new tab (StoryLayer unmounts or mounts, then BaseMap's mode effect)
\* and, when the mode effect reset mapLoaded, the commit that drops the
\* children.  An exception leaving the mode effect is caught by no error
\* boundary and React unmounts the tree.
SetActiveTab(t, throws) ==
    /\ mounted
    /\ t # activeTab
    /\ toggles < MaxToggles
    /\ toggles' = toggles + 1
    /\ LET M0 == Task(engine, mapLoaded, FALSE)
           M1 == IF mapLoaded /\ HasStory(activeTab) /\ ~HasStory(t)
                 THEN StoryCleanup(M0, "story") ELSE M0
           M2 == IF mapLoaded /\ HasStory(t) /\ ~HasStory(activeTab)
                 THEN StoryEffect(M1, "story") ELSE M1
           M3 == ModeEffect(M2, mapLoaded, ModeProp(t), throws)
           M4 == IF mapLoaded /\ ~M3.ready
                 THEN UnmountChildren(M3, t) ELSE M3
           F == IF mapLoaded /\ ~M3.ready
                THEN Stale(Issue(fetches, M4.issued), Overlays)
                ELSE IF mapLoaded /\ ~HasStory(t)
                THEN Stale(Issue(fetches, M4.issued), {"story"})
                ELSE Issue(fetches, M4.issued)
           M5 == Teardown(M3, mapLoaded, t)
       IN  IF throws
           THEN /\ mapLoaded
                /\ mounted' = FALSE
                /\ activeTab' = "STORIES"
                /\ mapLoaded' = FALSE
                /\ engine' = NoEngine
                /\ styleCb' = 0
                /\ structureCb' = 0
                /\ retries' = 0
                /\ clicks' = [o \in Overlays |-> 0]
                /\ fetches' = Dead(Issue(fetches, M5.issued))
                /\ calls' = M5.calls
                /\ failed' = TRUE
           ELSE /\ \A o \in Overlays :
                      F[o]["stale"] <= IF o = "story" THEN MaxStaleStory
                                       ELSE MaxStale
                /\ Apply(M4)
                /\ mounted' = mounted
                /\ activeTab' = t
                /\ mapLoaded' = M3.ready
                /\ fetches' = F
    /\ UNCHANGED mounts
    /\ UNCHANGED <<storeVars, menuVars>>

\* the engine drops the previous style and starts loading the requested one
Discard ==
    /\ mounted
    /\ engine.phase = "diffing"
    /\ engine' = [engine EXCEPT !.phase = "loading", !.style = engine.target,
                                !.sources = {}, !.layers = {},
                                !.order = <<>>]
    /\ calls' = <<>>
    /\ UNCHANGED <<mounted, activeTab, mapLoaded, styleCb, structureCb,
                   retries, clicks, fetches, failed, toggles, mounts>>
    /\ UNCHANGED <<storeVars, menuVars>>

RECURSIVE RunRetries(_, _, _)
RunRetries(M, n, fault) ==
    IF n = 0 THEN M
    ELSE RunRetries(StoryRetry([M EXCEPT !.retries = @ - 1], fault),
                    n - 1, fault)

\* the engine fires "style.load": StructureLayer's listener while its effect
\* is active, BaseMap's once callback (BaseMap.tsx:103-106), StoryLayer's
\* retries; then the render that setMapLoaded(true) causes.
StyleLoad(fault) ==
    /\ mounted
    /\ engine.phase = "loading"
    /\ LET M0 == Task([engine EXCEPT !.phase = "loaded"], mapLoaded, FALSE)
           M1 == IF structureCb > 0 THEN Fetch(M0, "structure") ELSE M0
           M2 == [M1 EXCEPT !.styleCb = 0]
           M3 == RunRetries(M2, M2.retries, fault)
           nowLoaded == mapLoaded \/ styleCb > 0
           M4 == IF nowLoaded /\ ~mapLoaded
                 THEN MountChildren([M3 EXCEPT !.ready = TRUE], activeTab)
                 ELSE M3
       IN  /\ Apply(M4)
           /\ mapLoaded' = nowLoaded
           /\ fetches' = Issue(fetches, M4.issued)
    /\ UNCHANGED <<mounted, activeTab, toggles, mounts>>
    /\ UNCHANGED <<storeVars, menuVars>>

\* the engine fires "load" once, after its first style has loaded
\* (BaseMap.tsx:75-78), and BaseMap renders its children.
Load ==
    /\ mounted
    /\ engine.phase = "loaded"
    /\ ~engine.loadFired
    /\ LET M0 == Task([engine EXCEPT !.loadFired = TRUE], mapLoaded, FALSE)
           M1 == IF ~mapLoaded
                 THEN MountChildren([M0 EXCEPT !.ready = TRUE], activeTab)
                 ELSE M0
       IN  /\ Apply(M1)
           /\ mapLoaded' = TRUE
           /\ fetches' = Issue(fetches, M1.issued)
    /\ UNCHANGED <<mounted, activeTab, toggles, mounts>>
    /\ UNCHANGED <<storeVars, menuVars>>

\* variant of the failure path that takes the overlay off the map
FetchFailedResets(M, o, via) ==
    Call(RemoveSource(RemoveLayer(M, o), o), o, via, "console.error", "fetch",
         "none")

\* .catch((err) => console.error(...)) of an overlay's fetch chain
\* (addStructureLayer: its catch block)
FetchFailed(M, o, via) ==
    Call(M, o, via, "console.error", "fetch", "none")

\* a GeoJSON response arrives: !res.ok or a network error ends in the
\* catch handler, otherwise the overlay's continuation runs on the instance
\* it captured.
FetchArrive(o, st, ok, fault) ==
    /\ fetches[o][st] > 0
    /\ fetches' = [fetches EXCEPT ![o][st] = @ - 1]
    /\ LET dead == st = "dead"
           via == IF st = "current" THEN "fetch" ELSE st
           M0 == Task(IF dead THEN NoEngine ELSE engine, mapLoaded, dead)
           M1 == CASE ~ok -> FetchFailed(M0, o, via)
                   [] ok /\ o = "community" -> CommunityThen(M0, via, fault)
                   [] ok /\ o = "structure" -> StructureThen(M0, via, fault)
                   [] ok /\ o = "story" -> StoryThen(M0, via, fault)
       IN  IF dead
           THEN /\ calls' = M1.calls
                /\ UNCHANGED <<engine, styleCb, structureCb, retries, clicks,
                               failed>>
           ELSE /\ engine' = M1.eng
                /\ styleCb' = M1.styleCb
                /\ structureCb' = M1.structureCb
                /\ retries' = M1.retries
                /\ clicks' = M1.clicks
                /\ calls' = M1.calls
                /\ failed' = (failed \/ ~ok \/ M1.generic)
    /\ UNCHANGED <<mounted, activeTab, mapLoaded, toggles, mounts>>
    /\ UNCHANGED <<storeVars, menuVars>>

\* variant of the unmount that leaves the ready flag as it was
UnmountKeepsReady ==
    /\ mounted
    /\ mounted' = FALSE
    /\ activeTab' = "STORIES"
    /\ mapLoaded' = mapLoaded
    /\ engine' = NoEngine
    /\ styleCb' = 0
    /\ structureCb' = 0
    /\ retries' = 0
    /\ clicks' = [o \in Overlays |-> 0]
    /\ fetches' = Dead(fetches)
    /\ calls' = Teardown(Task(engine, mapLoaded, FALSE), mapLoaded,
                          activeTab).calls
    /\ UNCHANGED <<failed, toggles, mounts>>
    /\ UNCHANGED <<storeVars, menuVars>>

\* ExploreSection leaves the tree.
Unmount ==
    /\ mounted
    /\ mounted' = FALSE
    /\ activeTab' = "STORIES"
    /\ mapLoaded' = FALSE
    /\ engine' = NoEngine
    /\ styleCb' = 0
    /\ structureCb' = 0
    /\ retries' = 0
    /\ clicks' = [o \in Overlays |-> 0]
    /\ fetches' = Dead(fetches)
    /\ calls' = Teardown(Task(engine, mapLoaded, FALSE), mapLoaded,
                          activeTab).calls
    /\ UNCHANGED <<failed, toggles, mounts>>
    /\ UNCHANGED <<storeVars, menuVars>>

Next ==
    \/ Mount
    \/ \E t \in Tabs, throws \in BOOLEAN : SetActiveTab(t, throws)
    \/ Discard
    \/ \E fault \in Faults : StyleLoad(fault)
    \/ Load
    \/ \E o \in Overlays, st \in FetchStates, ok \in BOOLEAN, fault \in Faults :
          FetchArrive(o, st, ok, fault)
    \/ Unmount

Spec == Init /\ [][Next]_vars

StoreNext ==
    \/ \E field \in Fields : \E value \in Values(field) :
          CallSetter(field, value)
    \/ \E key \in FilterKeys : \E value \in FilterValues(key) :
          CallUpdateFilter(key, value)
    \/ Render
    \/ \E inside \in BOOLEAN : ReadContext(inside)

StoreSpec == Init /\ [][StoreNext]_vars

MenuNext ==
    \/ MenuMount
    \/ ToggleMenu
    \/ CloseMenu
    \/ Tick
    \/ \E i \in 1..MaxTimers : TimerFires(i)
    \/ MenuUnmount

MenuSpec == Init /\ [][MenuNext]_vars

TypeOK ==
    /\ mounted \in BOOLEAN
    /\ activeTab \in Tabs
    /\ mapLoaded \in BOOLEAN
    /\ engine.phase \in {"none", "loading", "diffing", "loaded"}
    /\ styleCb \in 0..1
    /\ structureCb \in 0..1
    /\ retries \in Nat
    /\ toggles \in 0..MaxToggles
    /\ mounts \in 0..MaxMounts

\* ============================================================= properties
Present(o) == SourceId(o) \in engine.sources /\ LayerId(o) \in engine.layers
Absent(o) == SourceId(o) \notin engine.sources /\ LayerId(o) \notin engine.layers

\* boundaries and structures always, stories only on the STORIES tab
Applicable(o, tab) == o # "story" \/ tab = "STORIES"

\* no style transition pending, no fetch in flight, no callback waiting
Settled ==
    /\ mounted
    /\ mapLoaded
    /\ engine.phase = "loaded"
    /\ ~InFlight(fetches)
    /\ retries = 0
    /\ styleCb = 0

Mutations ==
    {"addSource", "addLayer", "setData", "removeLayer", "removeSource",
     "on:click", "off:click", "on:style.load", "off:style.load",
     "once:style.load"}

Idx == 1..Len(calls)

\* C1: while the published mapLoaded flag is false no overlay component
\* issues an engine mutation call (addSource, addLayer, setData, removeLayer,
\* removeSource, on/off).
C1_NoOverlayCallWhileNotReady ==
    \A i \in Idx :
        (calls[i].by \in Overlays /\ calls[i].op \in Mutations)
            => calls[i].ready

\* C2: BaseMap resets ready before it requests setStyle and sets it again
\* only when the engine has fired style.load for the requested style: setStyle
\* is never called with ready still published, and while ready is published
\* the engine has no style transition in progress and no callback of the host
\* is waiting for one.
C2_ReadyOnlyWithLoadedStyle ==
    /\ \A i \in Idx : calls[i].op = "setStyle" => ~calls[i].ready
    /\ mapLoaded =>
          /\ engine.phase = "loaded"
          /\ engine.style = engine.target
          /\ styleCb = 0

\* C2 witness: a mode change has completed, ready is published again on the
\* style the host requested.
C2_Witness ==
    /\ mapLoaded
    /\ toggles > 0
    /\ engine.phase = "loaded"
    /\ engine.style = dataStyle

\* C3: once the toggles have settled the engine's style is the one
\* configured for the current mode.
C3_SettledStyleIsModeStyle ==
    Settled => engine.style = StyleFor(ModeProp(activeTab))

\* C4: the continuation of a response that arrives after its overlay was
\* deactivated or unmounted performs no addSource, addLayer, setData or
\* listener registration.
C4_StaleResponseDiscarded ==
    \A i \in Idx :
        calls[i].via \in {"stale", "dead"}
            => calls[i].op \notin {"addSource", "addLayer", "setData",
                                   "on:click", "once:style.load"}

\* identifiers the children rendered for a tab register when that tab is
\* activated on a fresh map
DirectIds(tab) ==
    UNION {{SourceId(o), LayerId(o)} : o \in {x \in Overlays : Applicable(x, tab)}}

PresentIds == engine.sources \cup engine.layers

\* C5: from STORIES with the story overlay active, once the switch to DATA
\* has settled the engine has neither 'story-markers' nor 'stories-data',
\* and the boundary and structure overlays are present.
C5_DataHasNoStoryOverlay ==
    (Settled /\ ~failed /\ activeTab = "DATA" /\ toggles = 1)
        => /\ Absent("story")
           /\ Present("community")
           /\ Present("structure")

\* C6: after A -> B -> A has settled the overlay identifiers in the engine
\* are those of activating A directly; nothing of a previous mode is left.
C6_RoundTripIds ==
    (Settled /\ ~failed /\ toggles >= 2) => PresentIds = DirectIds(activeTab)

\* ---------------------------------------------------------------- liveness
\* Every fetch succeeds and the engine accepts every call it can accept; the
\* network answers each request and the engine finishes each style it loads.
\* the events the page waits for: the event loop delivers a pending engine
\* event or response
Delivery ==
    \/ Discard
    \/ StyleLoad("none")
    \/ Load
    \/ \E o \in Overlays, st \in FetchStates : FetchArrive(o, st, TRUE, "none")

LiveNext ==
    \/ Mount
    \/ \E t \in Tabs : SetActiveTab(t, FALSE)
    \/ Delivery
    \/ Unmount

\* a delivery can be made: the engine has a style to drop or to finish, or
\* its "load" to fire, or a response is on its way
DeliveryPending ==
    \/ mounted /\ engine.phase \in {"diffing", "loading"}
    \/ mounted /\ engine.phase = "loaded" /\ ~engine.loadFired
    \/ InFlight(fetches)

\* DeliveryPending is the enabling condition of Delivery
DeliveryPendingIsEnabled == DeliveryPending <=> ENABLED <<Delivery>>_vars

\* WF_vars(Delivery), with ENABLED <<Delivery>>_vars written out as
\* DeliveryPending: a delivery that stays possible is eventually made
Fairness == []<>(~DeliveryPending) \/ []<><<Delivery>>_vars

LiveSpec == Init /\ [][LiveNext]_vars /\ Fairness

Active(o) == mapLoaded /\ Applicable(o, activeTab)

C8_DeactivationRemoves ==
    [][/\ (mounted' /\ mapLoaded /\ ~mapLoaded')
            => \A o \in Overlays :
                  /\ SourceId(o) \notin engine'.sources
                  /\ LayerId(o) \notin engine'.layers
       /\ (mounted' /\ mapLoaded /\ activeTab = "STORIES" /\ activeTab' = "DATA")
            => /\ SourceId("story") \notin engine'.sources
               /\ LayerId("story") \notin engine'.layers]_vars

Removals == {"removeLayer", "removeSource"}

\* the engine calls of one overlay's deactivation in the task just run
Deactivation(o) ==
    SelectSeq(calls, LAMBDA c : c.by = o /\ c.via = "cleanup")

Ops(seq) == {seq[i].op : i \in 1..Len(seq)}

C10_SourceAndLayerTogether ==
    \A o \in Overlays :
        SourceId(o) \in engine.sources <=> LayerId(o) \in engine.layers

\* ------------------------------------------------------------------- retry
\* first attempts of the story overlay refused because the style is loading
RetryRequests(seq) ==
    SelectSeq(seq, LAMBDA c : /\ c.by = "story" /\ c.via # "retry"
                              /\ c.op = "addSource"
                              /\ c.err = "Style is not done loading")

\* runs of the retry callback: each starts by looking the source up
RetryRuns(seq) ==
    SelectSeq(seq, LAMBDA c : c.via = "retry" /\ c.op = "getSource")

StyleLoadFires == engine.phase = "loading" /\ engine'.phase = "loaded"

\* C11: each addSource of the story overlay refused with "Style is not done
\* loading" registers one retry; a retry runs only when style.load fires, the
\* next style.load runs every pending retry once, and a retry never
\* registers another, whatever its outcome.
C11_SingleRetry ==
    [][LET req == Len(RetryRequests(calls'))
           ran == Len(RetryRuns(calls'))
       IN  /\ ran > 0 => StyleLoadFires
           /\ StyleLoadFires => ran = retries
           /\ mounted' => retries' = retries + req - ran
           /\ \A i \in 1..Len(calls') :
                 calls'[i].via = "retry" => calls'[i].op # "once:style.load"]_vars

\* C11 witness: the retry has run, the engine refused it, and no retry is
\* pending.
C11_Witness ==
    /\ retries = 0
    /\ \E i \in Idx : calls[i].via = "retry" /\ calls[i].err = "rejected"

\* identifiers the engine accepted in the calls before the i-th of a task
Added(seq, i) ==
    {seq[j].id : j \in {k \in 1..(i - 1) : /\ seq[k].op \in {"addSource", "addLayer"}
                                           /\ seq[k].err = "none"}}

\* C12: the retry looks the source up again: it calls addSource or addLayer
\* only for an identifier the engine does not hold at that moment, and when
\* the source is there it calls setData in place of addSource.
C12_RetryRechecks ==
    [][\A i \in 1..Len(calls') :
          calls'[i].via = "retry" =>
              LET held == engine.sources \cup engine.layers
                              \cup Added(calls', i)
                  c == calls'[i]
              IN  /\ c.op \in {"addSource", "addLayer"} => c.id \notin held
                  /\ c.op = "setData" => c.id \in held
                  /\ (c.op = "getSource" /\ c.id \in held)
                        => /\ i < Len(calls')
                           /\ calls'[i + 1].via = "retry"
                           /\ calls'[i + 1].op = "setData"]_vars

\* C12 witness: a retry found the source another retry had created, updated
\* its data, and the layer is there once.
C12_Witness ==
    /\ \E i \in Idx : calls[i].via = "retry" /\ calls[i].op = "setData"
    /\ Len(SelectSeq(engine.order, LAMBDA l : l = "story-markers")) = 1

\* C13: when the engine refuses a call of the retry, the story overlay is
\* left with neither its source nor its layer, and no retry is pending.
C13_FailedRetryLeavesAbsent ==
    [][(\E i \in 1..Len(calls') :
            calls'[i].via = "retry" /\ calls'[i].err # "none")
          => /\ SourceId("story") \notin engine'.sources
             /\ LayerId("story") \notin engine'.layers
             /\ retries' = 0]_vars

\* C14: a mode change whose setStyle call throws leaves the host with
\* mapLoaded true again.
C14_StyleFailureRestoresReady ==
    [][(\E i \in 1..Len(calls') :
            calls'[i].op = "setStyle" /\ calls'[i].err # "none")
          => mapLoaded']_vars

\* C15: a fetch that fails (network error or !res.ok) makes no engine call:
\* the engine's style, sources and layers, and the listeners, are those from
\* before the response, and the task does nothing but log the error.
C15_FailedFetchTouchesNothing ==
    [][(\E i \in 1..Len(calls') : calls'[i].op = "console.error")
          => /\ Len(calls') = 1
             /\ engine' = engine
             /\ clicks' = clicks
             /\ retries' = retries
             /\ styleCb' = styleCb]_vars

\* C15 witness: a fetch of an overlay failed while the overlay's source and
\* layer, added from an earlier response, are on the map.
C15_Witness ==
    /\ Len(calls) = 1
    /\ calls[1].op = "console.error"
    /\ Present(calls[1].by)

\* the mutation calls an overlay made in the continuation of its own,
\* still active, fetch
Activation(o) ==
    SelectSeq(calls, LAMBDA c : /\ c.by = o /\ c.via = "fetch"
                                /\ c.op \in Mutations)

\* C16: on activation with a successful fetch an overlay that finds its
\* source only calls setData (no addLayer, no removeLayer), and an overlay
\* that creates its source calls addLayer next.
C16_CreateOrUpdate ==
    \A o \in Overlays :
        LET a == Activation(o)
        IN  /\ "setData" \in Ops(a) => Ops(a) = {"setData"}
            /\ \A i \in 1..Len(a) :
                  (a[i].op = "addSource" /\ a[i].err = "none")
                      => /\ i < Len(a)
                         /\ a[i + 1].op = "addLayer"

\* C17: an overlay that is not active (the map is not ready, or the overlay
\* does not apply to the current tab) has no click listener on the map.
C17_NoListenerAfterDeactivation ==
    \A o \in Overlays : (mounted /\ ~Active(o)) => clicks[o] = 0

\* C18: mapLoaded is false until the engine has fired its "load" event.
C18_ReadyOnlyAfterLoad ==
    ~engine.loadFired => ~mapLoaded

\* C18 witness: the first style has finished loading, "load" has not been
\* delivered yet and mapLoaded is still false.
C18_Witness ==
    /\ mounted
    /\ engine.phase = "loaded"
    /\ ~engine.loadFired
    /\ ~mapLoaded

\* calls of a task with the given operation
CallsOf(seq, op) == SelectSeq(seq, LAMBDA c : c.op = op)

\* C19: an engine is constructed in the step that mounts BaseMap and in no
\* other, a mounted BaseMap holds an instance and an unmounted one holds
\* none, no step that leaves BaseMap mounted removes the instance, and the
\* step that unmounts it removes the instance, clears the handle and leaves
\* mapLoaded false.
C19_OneEngine ==
    [][/\ Len(CallsOf(calls', "new")) = (IF ~mounted /\ mounted' THEN 1 ELSE 0)
       /\ mounted' <=> engine'.phase # "none"
       /\ mounted' => Len(CallsOf(calls', "remove")) = 0
       /\ (mounted /\ ~mounted')
            => /\ Len(CallsOf(calls', "remove")) = 1
               /\ engine' = NoEngine
               /\ ~mapLoaded']_vars

\* C19 witness: BaseMap was mounted, went through a mode change on the same
\* instance and was unmounted.
C19_Witness ==
    /\ ~mounted
    /\ mounts > 0
    /\ toggles > 0
    /\ ~failed
    /\ engine = NoEngine
    /\ \E i \in Idx : calls[i].op = "remove"

\* the order ExploreSection renders the overlays in, bottom first
RenderOrder == <<"community-boundaries", "structure-markers", "story-markers">>

\* C20: every engine call of an overlay names one of its own identifiers,
\* and once the three overlays of a freshly loaded map have registered the
\* engine holds the same sources and the same layer stack whichever
\* response came first.
C20_OrderIndependent ==
    /\ \A i \in Idx :
          (calls[i].by \in Overlays /\ calls[i].id \notin {"style.load", "fetch"})
              => calls[i].id \in {SourceId(calls[i].by), LayerId(calls[i].by)}
    /\ (Settled /\ ~failed /\ toggles = 0)
          => /\ engine.sources = {SourceId(o) : o \in Overlays}
             /\ engine.order = RenderOrder

\* C23: at any time at most one click listener is attached for
\* 'story-markers', so that one click on a story marker calls onStoryClick
\* once.
C23_OneStoryListener ==
    clicks["story"] <= 1

\* C24: once the cleanup of BaseMap has removed the engine instance, no
\* overlay calls a method on that instance: every call an overlay makes
\* (from an effect cleanup, a fetch continuation or a style.load callback)
\* is made on an instance that has not been removed.
C24_NoCallOnRemovedInstance ==
    \A i \in Idx : calls[i].by \in Overlays => ~calls[i].dead

\* C25: whenever the context value published by BaseMap has mapLoaded =
\* true, the map it publishes is an engine instance that exists and has not
\* been removed.
C25_ReadyImpliesLiveMap ==
    mapLoaded => (mounted /\ engine # NoEngine /\ engine.phase # "none")

\* C25 witness: the map is published as ready again after a mode change and
\* the style swap it caused.
C25_Witness ==
    /\ mapLoaded
    /\ mounted
    /\ toggles > 0
    /\ engine.phase = "loaded"
    /\ engine.style = StyleFor(ModeProp(activeTab))

\* identifiers the engine holds before the i-th call of a task that started
\* on the current engine
RECURSIVE HeldBefore(_, _)
HeldBefore(seq, i) ==
    IF i <= 1 THEN engine.sources \cup engine.layers
    ELSE LET c == seq[i - 1]
             h == HeldBefore(seq, i - 1)
         IN  IF c.err # "none" THEN h
             ELSE IF c.op \in {"addSource", "addLayer"} THEN h \cup {c.id}
             ELSE IF c.op \in Removals THEN h \ {c.id}
             ELSE h

\* C26: whatever the interleaving of effects, fetch continuations,
\* style.load callbacks and cleanups, an overlay calls addSource or
\* addLayer only with an identifier the engine does not hold at that
\* moment, and removeSource only when its layer is not in the engine.
C26_NoDuplicateNoOrphan ==
    [][\A i \in 1..Len(calls') :
          LET c == calls'[i]
              held == HeldBefore(calls', i)
          IN  (c.by \in Overlays /\ ~c.dead) =>
                  /\ c.op \in {"addSource", "addLayer"} => c.id \notin held
                  /\ c.op = "removeSource" => LayerId(c.by) \notin held]_vars

\* C26 witness: a response that arrived after its effect was cleaned up
\* found the source the current effect's response had created and updated
\* it, with the overlay's layer on the map once.
C26_Witness ==
    /\ \E i \in Idx : /\ calls[i].via = "stale"
                      /\ calls[i].op = "setData"
                      /\ ~calls[i].dead
                      /\ Len(SelectSeq(engine.order,
                                       LAMBDA l : l = LayerId(calls[i].by))) = 1

\* the calls of one run of addStructureLayer after its awaits
StructureRun(seq) ==
    SelectSeq(seq, LAMBDA c : /\ c.by = "structure"
                              /\ c.via \in {"fetch", "stale"}
                              /\ c.op # "console.error")

\* C27: after a run of addStructureLayer whose fetch succeeded and whose
\* calls the engine accepted, 'structure-data' and 'structure-markers' are
\* both in the engine, whichever of them was there before; and
\* addStructureLayer is subscribed to style.load exactly while the
\* StructureLayer effect is active.
C27_StructureLayer ==
    /\ [][LET run == StructureRun(calls')
          IN  (run # <<>> /\ \A i \in 1..Len(run) : run[i].err = "none")
                  => /\ "structure-data" \in engine'.sources
                     /\ "structure-markers" \in engine'.layers]_vars
    /\ [](structureCb = (IF mounted /\ mapLoaded THEN 1 ELSE 0))

\* C27 witness: a run found the source and the layer missing while the
\* effect is active and subscribed, and added both.
C27_Witness ==
    /\ structureCb = 1
    /\ mapLoaded
    /\ LET run == StructureRun(calls)
       IN  /\ \E i \in 1..Len(run) : run[i].op = "addSource"
           /\ \E i \in 1..Len(run) : run[i].op = "addLayer"
           /\ \A i \in 1..Len(run) : run[i].err = "none"
    /\ Present("structure")

\* AppProvider renders with the calls made since its last render
Rerender == queue # <<>> /\ queue' = <<>>

\* the value of filter field k after the calls in q, made in that order on
\* a record whose field k was prior: that of the last call that names k
\* (updateFilter(k, v)) or replaces the record (setFilters(r))
RECURSIVE FilterAfter(_, _, _)
FilterAfter(q, k, prior) ==
    IF q = <<>> THEN prior
    ELSE LET c == q[Len(q)]
         IN  IF c.fn = "updateFilter" /\ c.key = k THEN c.arg
             ELSE IF c.fn = "set" /\ c.key = "filters" THEN c.arg[k]
             ELSE FilterAfter(SubSeq(q, 1, Len(q) - 1), k, prior)

\* C21: updateFilter(key, value) sets the named field of the filter record
\* to value and leaves every other filter field as it was, for every key
\* and prior record, also when several calls are made before a re-render:
\* after the render each filter field has the value of the last call that
\* named it, and its prior value when none did.
C21_UpdateFilterMerges ==
    [][Rerender =>
          \A k \in FilterKeys :
              store'.filters[k] = FilterAfter(queue, k, store.filters[k])]_vars

\* C21 witness: one render applied two updateFilter calls on different
\* keys, and the filter record holds both values.
C21_Witness ==
    /\ queue = <<>>
    /\ \E i, j \in 1..Len(batch) :
          /\ i < j
          /\ batch[i].fn = "updateFilter"
          /\ batch[j].fn = "updateFilter"
          /\ batch[i].key # batch[j].key
          /\ store.filters[batch[i].key] = batch[i].arg
          /\ store.filters[batch[j].key] = batch[j].arg
          /\ store.filters[batch[i].key] # defaultFilters[batch[i].key]

\* C22: useAppContext throws when it is called outside an AppProvider, and
\* inside one it returns the provider's value and does not throw.
C22_ContextGuard ==
    [][context' # context =>
          IF context'.inside
          THEN context'.outcome = "returns" /\ context'.same
          ELSE context'.outcome = "throws"]_vars

\* C22 witness: a component outside the provider called the hook, after
\* the provider's state had changed, and the call threw.
C22_Witness ==
    /\ ~context.inside
    /\ context.outcome = "throws"
    /\ store # InitialStore

\* the value of field f after the setter calls in q on a store whose field
\* was prior
RECURSIVE FieldAfter(_, _, _)
FieldAfter(q, f, prior) ==
    IF q = <<>> THEN prior
    ELSE LET c == q[Len(q)]
         IN  IF c.fn = "set" /\ c.key = f THEN c.arg
             ELSE FieldAfter(SubSeq(q, 1, Len(q) - 1), f, prior)

\* C28: a setter changes its own field and no other: after a render every
\* field other than the filter record has the value its setter was last
\* called with, and its prior value when its setter was not called, and
\* the filter record is unchanged when neither setFilters nor updateFilter
\* was called; mode is STORIES or DATA, and STORIES until setMode is called.
C28_SettersOwnField ==
    /\ [][Rerender =>
            /\ \A f \in Fields \ {"filters"} :
                  store'[f] = FieldAfter(queue, f, store[f])
            /\ (\A i \in 1..Len(queue) :
                    queue[i].fn = "set" /\ queue[i].key # "filters")
                  => store'.filters = store.filters]_vars
    /\ [](store.mode \in {"STORIES", "DATA"})
    /\ [](storeCalls = 0 => store.mode = "STORIES")

\* C28 witness: with mode changed by an earlier render, a render applied
\* one call of another setter, and mode kept its value.
C28_Witness ==
    /\ queue = <<>>
    /\ Len(batch) = 1
    /\ batch[1].fn = "set"
    /\ batch[1].key = "leftPanelOpen"
    /\ store.leftPanelOpen
    /\ store.mode = "DATA"

\* a timer's callback ran: a timer is gone while the menu stayed mounted
\* and isOpen did not change
TimerFired ==
    /\ menuMounted /\ menuMounted'
    /\ isMenuOpen' = isMenuOpen
    /\ Len(timers') < Len(timers)

\* C29: the menu is rendered whenever isOpen is true; once isOpen has
\* turned false it stays rendered for the 300 ms of the timer, and the
\* timer firing on the closed menu hides it; a menu that is open, also one
\* reopened before the timer fired, keeps isVisible true: no pending timer
\* resets it.
C29_MenuVisibility ==
    /\ []((menuMounted /\ isMenuOpen) => (Rendered /\ isVisible))
    /\ []((menuMounted /\ ~isMenuOpen /\ sinceClose < MenuDelay) => Rendered)
    /\ [][(TimerFired /\ ~isMenuOpen) => ~Rendered']_vars
    /\ [][(TimerFired /\ isMenuOpen) => (Rendered' /\ isVisible')]_vars

\* C29 witness: the menu was opened, closed and opened again less than
\* 300 ms after the close; the timer of the close is gone and the menu is
\* visible.
C29_Witness ==
    /\ menuMounted
    /\ isMenuOpen
    /\ isVisible
    /\ flips >= 3
    /\ sinceClose > 0
    /\ sinceClose < MenuDelay
    /\ timers = <<>>
====
